---- MODULE Spec2Model ----
(***************************************************************************)
(* Model of the summarize pipeline of the repository:                      *)
(*   src/src/app/api/summarize/route.ts   GET, splitTranscript             *)
(*   src/src/app/api/transcript/route.ts  GET                              *)
(*                                                                         *)
(* Representation of JavaScript values.                                    *)
(*   A JS string is a sequence of fragments (TLA+ strings); the empty      *)
(*   string is << >>, concatenation is \o.  Fragments are cut so that the  *)
(*   substrings the code looks for ("[Error", "transcript", "Groq", "LLM") *)
(*   are fragments of their own: startsWith and includes are decided on    *)
(*   fragments.                                                            *)
(*   A JS value is a tagged record: JNull, JStr(s), JArr(items), JObj(f).  *)
(*   A JSON text is a sequence of lexical tokens [t, v].                   *)
(***************************************************************************)
EXTENDS Integers, Sequences, FiniteSets, TLC

(***************************************************************************)
(* Program constants                                                       *)
(***************************************************************************)
CHUNK_SIZE == 4000

MAX_CHUNKS == 5

(***************************************************************************)
(* Bounds of the model                                                     *)
(***************************************************************************)
\* the transcript provider returns at most this many segments
MaxSegments == 3

(***************************************************************************)
(* JavaScript values                                                       *)
(***************************************************************************)
JNull == [ty |-> "null"]

JNum == [ty |-> "number"]

JStr(s) == [ty |-> "string", s |-> s]

JArr(items) == [ty |-> "array", items |-> items]

JObj(f) == [ty |-> "object", f |-> f]

IsString(v) == v.ty = "string"

IsArray(v) == v.ty = "array"

IsObject(v) == v.ty = "object"

HasKey(v, k) == IsObject(v) /\ k \in DOMAIN v.f

\* JS truthiness of a value that is null or a string: null and "" are falsy
Truthy(v) == IsString(v) /\ Len(v.s) > 0

\* String.prototype.startsWith for a prefix that is one fragment
StartsWith(s, prefix) == Len(s) > 0 /\ s[1] = prefix

\* String.prototype.includes for a needle that is one fragment
Includes(s, needle) == \E i \in DOMAIN s : s[i] = needle

\* Array.prototype.join on an array of strings
RECURSIVE Join(_, _)
Join(strs, sep) ==
    IF Len(strs) = 0 THEN << >>
    ELSE IF Len(strs) = 1 THEN strs[1]
    ELSE strs[1] \o sep \o Join(Tail(strs), sep)

(***************************************************************************)
(* JSON texts and JSON.parse                                               *)
(*   tokens: [t |-> "ws"], [t |-> "p", v |-> "{"] (punctuation),           *)
(*           [t |-> "str", v |-> s] (a string literal with value s),       *)
(*           [t |-> "lit", v |-> "null"] (null / number literal),          *)
(*           [t |-> "word", v |-> w] (bare text that is no JSON token)     *)
(***************************************************************************)
Ws == [t |-> "ws", v |-> << >>]

P(c) == [t |-> "p", v |-> <<c>>]

StrTok(s) == [t |-> "str", v |-> s]

Lit(w) == [t |-> "lit", v |-> <<w>>]

Word(w) == [t |-> "word", v |-> <<w>>]

IsP(toks, i, c) == i <= Len(toks) /\ toks[i] = P(c)

\* String.prototype.trim on a text: drops the whitespace at both ends
RECURSIVE Trim(_)
Trim(text) ==
    IF Len(text) = 0 THEN text
    ELSE IF text[1].t = "ws" THEN Trim(Tail(text))
    ELSE IF text[Len(text)].t = "ws" THEN Trim(SubSeq(text, 1, Len(text) - 1))
    ELSE text

ParseFail == [ok |-> FALSE]

ParseOk(v, i) == [ok |-> TRUE, v |-> v, i |-> i]

\* recursive descent over the tokens from position i; the result is ParseFail or
\* ParseOk(value, position after the value)
RECURSIVE ParseValue(_, _), ParseElements(_, _, _), ParseMembers(_, _, _)
ParseValue(toks, i) ==
    IF i > Len(toks) THEN ParseFail
    ELSE IF toks[i].t = "str" THEN ParseOk(JStr(toks[i].v), i + 1)
    ELSE IF toks[i].t = "lit"
         THEN ParseOk(IF toks[i].v = <<"null">> THEN JNull ELSE JNum, i + 1)
    ELSE IF toks[i] = P("[")
         THEN IF IsP(toks, i + 1, "]") THEN ParseOk(JArr(<< >>), i + 2)
              ELSE ParseElements(toks, i + 1, << >>)
    ELSE IF toks[i] = P("{")
         THEN IF IsP(toks, i + 1, "}") THEN ParseOk(JObj(<< >>), i + 2)
              ELSE ParseMembers(toks, i + 1, << >>)
    ELSE ParseFail

ParseElements(toks, i, acc) ==
    LET r == ParseValue(toks, i) IN
    IF ~r.ok THEN ParseFail
    ELSE IF IsP(toks, r.i, ",") THEN ParseElements(toks, r.i + 1, Append(acc, r.v))
    ELSE IF IsP(toks, r.i, "]") THEN ParseOk(JArr(Append(acc, r.v)), r.i + 1)
    ELSE ParseFail

\* acc is the object so far, a function from keys to values; a repeated key
\* keeps the last value
ParseMembers(toks, i, acc) ==
    IF ~(i + 1 <= Len(toks) /\ toks[i].t = "str" /\ toks[i + 1] = P(":"))
    THEN ParseFail
    ELSE LET r == ParseValue(toks, i + 2)
             key == toks[i].v
             obj == [k \in DOMAIN acc \cup {key} |->
                        IF k = key THEN r.v ELSE acc[k]]
         IN IF ~r.ok THEN ParseFail
            ELSE IF IsP(toks, r.i, ",") THEN ParseMembers(toks, r.i + 1, obj)
            ELSE IF IsP(toks, r.i, "}") THEN ParseOk(JObj(obj), r.i + 1)
            ELSE ParseFail

\* JSON.parse: whitespace between tokens is skipped, the whole text must be
\* one value; the result is ParseFail (a SyntaxError is thrown) or ParseOk
JSONParse(text) ==
    LET toks == SelectSeq(text, LAMBDA tok : tok.t # "ws")
        r == ParseValue(toks, 1)
    IN IF r.ok /\ r.i = Len(toks) + 1 THEN r ELSE ParseFail

(***************************************************************************)
(* ArticleSchema (zod): z.object({title, introduction, sections:           *)
(* z.array(z.object({title, content})), conclusion}), all z.string().      *)
(* z.object accepts an object that has the keys of the schema with values  *)
(* of the schema's types and returns a new object holding the keys of the  *)
(* schema only (unknown keys are stripped); z.string() accepts every       *)
(* string, z.array every array.                                            *)
(***************************************************************************)
SectionKeys == {<<"title">>, <<"content">>}

ArticleKeys == {<<"title">>, <<"introduction">>, <<"sections">>, <<"conclusion">>}

ZString(v) == IsString(v)

\* z.object's output: the schema's keys only
ZStrip(v, keys) == JObj([k \in keys |-> v.f[k]])

SectionSchemaOk(v) ==
    /\ IsObject(v)
    /\ \A k \in SectionKeys : HasKey(v, k) /\ ZString(v.f[k])

SectionsSchemaOk(v) ==
    /\ IsArray(v)
    /\ \A i \in DOMAIN v.items : SectionSchemaOk(v.items[i])

ArticleSchemaOk(v) ==
    /\ IsObject(v)
    /\ \A k \in ArticleKeys : HasKey(v, k)
    /\ ZString(v.f[<<"title">>])
    /\ ZString(v.f[<<"introduction">>])
    /\ SectionsSchemaOk(v.f[<<"sections">>])
    /\ ZString(v.f[<<"conclusion">>])

\* the schema with .passthrough(): unknown keys are kept
ArticleSchemaParse_Passthrough(v) ==
    IF ~ArticleSchemaOk(v) THEN ParseFail ELSE [ok |-> TRUE, v |-> v]

\* ArticleSchema.parse: ParseFail (a ZodError is thrown) or the parsed article
ArticleSchemaParse(v) ==
    IF ~ArticleSchemaOk(v) THEN ParseFail
    ELSE [ok |-> TRUE,
          v |-> JObj([k \in ArticleKeys |->
                  IF k = <<"sections">>
                  THEN JArr([i \in DOMAIN v.f[k].items |->
                                ZStrip(v.f[k].items[i], SectionKeys)])
                  ELSE v.f[k]])]

(***************************************************************************)
(* splitTranscript. The transcript text is represented by its number of    *)
(* words (the whitespace-delimited, non-empty tokens of line 295); a chunk *)
(* words.slice(lo, hi).join(" ") is represented by its window [lo, hi).    *)
(***************************************************************************)
Min(a, b) == IF a < b THEN a ELSE b

\* a slice that leaves out the last word of the window
Slice_OneShort(totalWords, i, j) ==
    [lo |-> Min(i, totalWords), hi |-> Min(j - 1, totalWords)]

\* words.slice(i, j) of an array of totalWords words
Slice(totalWords, i, j) == [lo |-> Min(i, totalWords), hi |-> Min(j, totalWords)]

\* the loop with the test chunks.length > maxChunks
RECURSIVE SplitLoop_StopsOneLate(_, _, _, _, _)
SplitLoop_StopsOneLate(totalWords, chunkWordCount, maxChunks, i, chunks) ==
    IF ~(i < totalWords) THEN chunks
    ELSE IF Len(chunks) > maxChunks THEN chunks
    ELSE SplitLoop_StopsOneLate(totalWords, chunkWordCount, maxChunks,
                                i + chunkWordCount,
                                Append(chunks, Slice(totalWords, i, i + chunkWordCount)))

RECURSIVE SplitLoop(_, _, _, _, _)
SplitLoop(totalWords, chunkWordCount, maxChunks, i, chunks) ==
    IF ~(i < totalWords) THEN chunks
    ELSE IF Len(chunks) >= maxChunks THEN chunks
    ELSE SplitLoop(totalWords, chunkWordCount, maxChunks, i + chunkWordCount,
                   Append(chunks, Slice(totalWords, i, i + chunkWordCount)))

splitTranscript(transcript, chunkWordCount, maxChunks) ==
    SplitLoop(transcript.words, chunkWordCount, maxChunks, 0, << >>)

(***************************************************************************)
(* Error messages (JS strings) and responses                               *)
(***************************************************************************)
Undefined == [ty |-> "undefined"]

\* NextResponse.json({ error }, { status })
ErrorResponse(message, status) ==
    [kind |-> "error", status |-> status, error |-> message]

\* NextResponse.json({ article })
ArticleResponse(article) ==
    [kind |-> "article", status |-> 200, article |-> article]

NoResponse == [kind |-> "none", status |-> 0]

\* the catch block of GET: the status is decided by the words of the message
CatchStatus(errorMessage) ==
    IF Includes(errorMessage, "Groq") \/ Includes(errorMessage, "LLM") THEN 503
    ELSE IF Includes(errorMessage, "transcript") THEN 502
    ELSE 500

CatchResponse(errorMessage) == ErrorResponse(errorMessage, CatchStatus(errorMessage))

(***************************************************************************)
(* /api/transcript: GET, on the outcome of YoutubeTranscript.fetchTranscript *)
(***************************************************************************)
\* the words a transcript item's text holds; 0 is a blank text
SegmentWordCounts == {0, 1, CHUNK_SIZE}

TranscriptItems ==
    UNION {[1..n -> [words : SegmentWordCounts]] : n \in 0..MaxSegments}

\* messages of the errors youtube-transcript throws
FetchTranscriptErrors ==
    { <<"Transcript is disabled on this video: ", "disabled transcript">>,
      <<"No transcript found", " for this video">>,
      <<"The ", "video is unavailable">>,
      <<"Too many requests">> }

FetchTranscriptOutcomes ==
    {[st |-> "rejected", message |-> m] : m \in FetchTranscriptErrors}
    \cup {[st |-> "resolved", transcript |-> t] : t \in TranscriptItems}
    \cup {[st |-> "resolved-null"]}

\* the response of the route: [ok, json, body / statusText]
TranscriptRoute(outcome) ==
    IF outcome.st = "resolved-null"
    THEN [ok |-> TRUE, json |-> TRUE, hasArray |-> TRUE, transcript |-> << >>]
    ELSE IF outcome.st = "resolved"
    THEN [ok |-> TRUE, json |-> TRUE, hasArray |-> TRUE,
          transcript |-> IF Len(outcome.transcript) = 0 THEN << >>
                         ELSE outcome.transcript]
    ELSE IF \/ Includes(outcome.message, "disabled transcript")
            \/ Includes(outcome.message, "No transcript found")
         THEN [ok |-> FALSE, json |-> TRUE, status |-> 404,
               error |-> <<"Transcript is disabled or unavailable for this video.">>]
    ELSE IF Includes(outcome.message, "video is unavailable")
         THEN [ok |-> FALSE, json |-> TRUE, status |-> 404,
               error |-> <<"The video is unavailable.">>]
    ELSE [ok |-> FALSE, json |-> TRUE, status |-> 500,
          error |-> <<"Failed to fetch ", "transcript", ".">>]

\* what fetch(/api/transcript) can hand to the summarize handler: the route's
\* responses, an error page that is no JSON, a JSON error body without an error
\* text, and an ok body without a transcript array
TranscriptResponses ==
    {TranscriptRoute(o) : o \in FetchTranscriptOutcomes}
    \cup {[ok |-> FALSE, json |-> FALSE, status |-> 500,
           statusText |-> <<"Internal Server Error">>],
          [ok |-> FALSE, json |-> TRUE, status |-> 500, error |-> << >>],
          [ok |-> TRUE, json |-> TRUE, hasArray |-> FALSE]}

\* transcriptItems.map((item) => item.text).join(" ")
FullTranscriptText(transcriptItems) ==
    LET RECURSIVE Sum(_)
        Sum(items) == IF Len(items) = 0 THEN 0
                      ELSE items[1].words + Sum(Tail(items))
    IN [words |-> Sum(transcriptItems)]

\* the test left out: no text counts as blank
IsBlank_Never(text) == FALSE

\* !fullTranscriptText || fullTranscriptText.trim().length === 0
IsBlank(text) == text.words = 0

(***************************************************************************)
(* The video details response of the YouTube API                           *)
(***************************************************************************)
VideoDetailsResponses ==
    {[ok |-> TRUE, title |-> JStr(<<"How compilers work">>)],
     [ok |-> TRUE, title |-> JStr(<< >>)],
     [ok |-> TRUE, title |-> Undefined],
     [ok |-> FALSE, json |-> TRUE, message |-> <<"API key not valid.">>],
     [ok |-> FALSE, json |-> TRUE, message |-> << >>],
     [ok |-> FALSE, json |-> FALSE, statusText |-> <<"Forbidden">>]}

\* a placeholder without the video id
VideoTitle_NoId(title, id) ==
    IF Truthy(title) THEN title.s ELSE <<"Video">>

\* videoDetails.items?.[0]?.snippet?.title || `Video ${videoId}`
VideoTitle(title, id) ==
    IF Truthy(title) THEN title.s ELSE <<"Video ">> \o id

(***************************************************************************)
(* The generation service                                                  *)
(***************************************************************************)
\* messages of the errors the Groq client throws
GroqErrors == { <<"Connection error.">>, <<"429 Rate limit reached">> }

\* texts of a chunk completion: none, empty, one that begins like the error
\* placeholder, and two summaries
ChunkContents ==
    {JNull, JStr(<< >>), JStr(<<"[Error", " handling is the topic of this part]">>),
     JStr(<<"summary A">>), JStr(<<"summary B">>)}

ChunkOutcomes ==
    {[st |-> "rejected", content |-> Undefined]}
    \cup {[st |-> "resolved", content |-> c] : c \in ChunkContents}

\* the value the map callback of a chunk returns (lines 173-177)
ChunkSummary(index, outcome) ==
    IF outcome.st = "rejected"
    THEN JStr(<<"[Error", " summarizing chunk ", ToString(index + 1), "]">>)
    ELSE IF outcome.content = JNull THEN JStr(<< >>)
    ELSE outcome.content

\* the values in the order in which the promises settle
PromiseAllSettle_CompletionOrder(values, k, value) ==
    LET first == CHOOSE i \in DOMAIN values :
                    /\ values[i] = Undefined
                    /\ \A j \in 1..(i - 1) : values[j] # Undefined
    IN [values EXCEPT ![first] = value]

\* the values pushed to the front as the promises settle
PromiseAllSettle_Unshift(values, k, value) ==
    LET settled == SelectSeq(values, LAMBDA v : v # Undefined)
    IN [i \in DOMAIN values |->
            IF i = 1 THEN value
            ELSE IF i - 1 <= Len(settled) THEN settled[i - 1]
            ELSE Undefined]

\* every value written to the first position
PromiseAllSettle_OverwritesFirst(values, k, value) == [values EXCEPT ![1] = value]

\* Promise.all: the value of the promise at position k goes to position k
PromiseAllSettle(values, k, value) == [values EXCEPT ![k] = value]

\* the filter without the test for the error placeholder
IsValidSummary_KeepsPlaceholders(summary) == Truthy(summary)

\* the filter without the test for the empty summary
IsValidSummary_KeepsEmpty(summary) ==
    IsString(summary) /\ ~StartsWith(summary.s, "[Error")

\* chunkSummaries.filter((summary) => summary && !summary.startsWith("[Error"))
IsValidSummary(summary) == Truthy(summary) /\ ~StartsWith(summary.s, "[Error")

ValidSummaries(summaries) == SelectSeq(summaries, IsValidSummary)

\* the user prompt of the synthesis call: the title and the labelled summaries
SynthesisPrompt(title, summaries) ==
    [title |-> title,
     parts |-> [i \in DOMAIN summaries |-> [part |-> i, summary |-> summaries[i].s]]]

(***************************************************************************)
(* Texts the synthesis call can return                                     *)
(***************************************************************************)
TStr(s) == <<StrTok(s)>>

RECURSIVE TJoin(_)
TJoin(texts) ==
    IF Len(texts) = 0 THEN << >>
    ELSE IF Len(texts) = 1 THEN texts[1]
    ELSE texts[1] \o <<P(",")>> \o TJoin(Tail(texts))

TArr(texts) == <<P("[")>> \o TJoin(texts) \o <<P("]")>>

\* members is a sequence of <<key, text>>
TObj(members) ==
    <<P("{")>>
    \o TJoin([i \in DOMAIN members |->
                <<StrTok(members[i][1]), P(":")>> \o members[i][2]])
    \o <<P("}")>>

TSection(title, content) ==
    TObj(<< <<(<<"title">>), TStr(title)>>, <<(<<"content">>), TStr(content)>> >>)

TArticle(title, introduction, sections, conclusion) ==
    TObj(<< <<(<<"title">>), title>>,
            <<(<<"introduction">>), introduction>>,
            <<(<<"sections">>), sections>>,
            <<(<<"conclusion">>), conclusion>> >>)

TwoSections ==
    TArr(<< TSection(<<"Lexing">>, <<"Characters become tokens.">>),
            TSection(<<"Parsing">>, <<"Tokens become trees.">>) >>)

WellFormedText ==
    TArticle(TStr(<<"Compilers">>), TStr(<<"An overview.">>), TwoSections,
             TStr(<<"That is all.">>))

\* a well-formed article with a key of its own and a section with one
ExtraKeysText ==
    TObj(<< <<(<<"title">>), TStr(<<"Compilers">>)>>,
            <<(<<"author">>), TStr(<<"model">>)>>,
            <<(<<"introduction">>), TStr(<<"An overview.">>)>>,
            <<(<<"sections">>),
              TArr(<< TObj(<< <<(<<"title">>), TStr(<<"Lexing">>)>>,
                              <<(<<"id">>), <<Lit("1")>> >>,
                              <<(<<"content">>), TStr(<<"Characters.">>)>> >>) >>)>>,
            <<(<<"conclusion">>), TStr(<<"That is all.">>)>> >>)

SynthesisTexts ==
    { <<Word("not"), Ws, Word("json")>>,
      <<Ws>>,
      WellFormedText,
      <<Ws>> \o WellFormedText \o <<Ws>>,
      ExtraKeysText,
      \* the article after a sentence of explanation
      <<Word("Here is the article:"), Ws>> \o WellFormedText,
      \* cut off before the closing brace
      SubSeq(WellFormedText, 1, Len(WellFormedText) - 1),
      \* sections: []
      TArticle(TStr(<<"Compilers">>), TStr(<<"An overview.">>), TArr(<< >>),
               TStr(<<"That is all.">>)),
      \* title: ""
      TArticle(TStr(<< >>), TStr(<<"An overview.">>), TwoSections,
               TStr(<<"That is all.">>)),
      \* a section with content: ""
      TArticle(TStr(<<"Compilers">>), TStr(<<"An overview.">>),
               TArr(<< TSection(<<"Lexing">>, << >>) >>), TStr(<<"That is all.">>)),
      \* no conclusion
      TObj(<< <<(<<"title">>), TStr(<<"Compilers">>)>>,
              <<(<<"introduction">>), TStr(<<"An overview.">>)>>,
              <<(<<"sections">>), TwoSections>> >>),
      \* a section without content
      TArticle(TStr(<<"Compilers">>), TStr(<<"An overview.">>),
               TArr(<< TObj(<< <<(<<"title">>), TStr(<<"Lexing">>)>> >>) >>),
               TStr(<<"That is all.">>)),
      \* sections: "..." and title: null
      TArticle(TStr(<<"Compilers">>), TStr(<<"An overview.">>),
               TStr(<<"Lexing, parsing">>), TStr(<<"That is all.">>)),
      TArticle(<<Lit("null")>>, TStr(<<"An overview.">>), TwoSections,
               TStr(<<"That is all.">>)),
      \* JSON that is no object
      <<Lit("null")>>,
      TArr(<< WellFormedText >>) }

SynthesisOutcomes ==
    {[st |-> "rejected", message |-> m] : m \in GroqErrors}
    \cup {[st |-> "resolved", content |-> JNull],
          [st |-> "resolved", content |-> JStr(<< >>)]}
    \cup {[st |-> "resolved", content |-> JStr(t)] : t \in SynthesisTexts}

(***************************************************************************)
(* Step 4 of GET: parse, validate, fall back                               *)
(***************************************************************************)
\* the fallback with the summaries joined by a single line break
FallbackArticle_SingleNewline(videoTitle, validSummaries) ==
    JObj((<<"title">> :> JStr(videoTitle \o <<" - Summary">>))
      @@ (<<"introduction">> :>
            JStr(<<"This is a summary of the key points discussed in the video \"">>
                 \o videoTitle \o <<"\".">>))
      @@ (<<"sections">> :>
            JArr(<< JObj((<<"title">> :> JStr(<<"Key Points">>))
                      @@ (<<"content">> :>
                            JStr(Join([i \in DOMAIN validSummaries |->
                                         validSummaries[i].s], <<"\n">>)))) >>))
      @@ (<<"conclusion">> :>
            JStr(<<"Please refer to the original video for full details.">>)))

\* the article of the catch branch (lines 253-264)
FallbackArticle(videoTitle, validSummaries) ==
    JObj((<<"title">> :> JStr(videoTitle \o <<" - Summary">>))
      @@ (<<"introduction">> :>
            JStr(<<"This is a summary of the key points discussed in the video \"">>
                 \o videoTitle \o <<"\".">>))
      @@ (<<"sections">> :>
            JArr(<< JObj((<<"title">> :> JStr(<<"Key Points">>))
                      @@ (<<"content">> :>
                            JStr(Join([i \in DOMAIN validSummaries |->
                                         validSummaries[i].s], <<"\n\n">>)))) >>))
      @@ (<<"conclusion">> :>
            JStr(<<"Please refer to the original video for full details.">>)))

\* a null check in place of the falsy check
HasNoContent_NullOnly(articleJson) == articleJson = JNull

\* if (!articleJson), line 231
HasNoContent(articleJson) == ~Truthy(articleJson)

\* JSON.parse(articleJson.trim()) then ArticleSchema.parse (lines 243-244):
\* ParseFail when either throws
ParseAndValidate(articleJson) ==
    LET parsedJson == JSONParse(Trim(articleJson)) IN
    IF parsedJson.ok THEN ArticleSchemaParse(parsedJson.v) ELSE ParseFail

(***************************************************************************)
(* The state of one invocation of GET /api/summarize                       *)
(***************************************************************************)
VARIABLES
    pc,                 \* where the handler is: Idle, AwaitTranscript,
                        \* AwaitVideoDetails, Summarizing, Synthesizing, Done
    videoId,            \* searchParams.get("videoId"): null or a string
    GROQ_API_KEY,       \* whether the key is configured
    YOUTUBE_API_KEY,
    transcriptResponse, \* the outcome of fetch(/api/transcript)
    fullTranscriptText,
    videoDetailsResponse, \* the outcome of the video details fetch
    videoTitle,
    chunks,
    calls,              \* the chunk completions: pending, resolved, rejected
    chunkSummaries,     \* the values Promise.all collects, by position
    validSummaries,
    synthesisPrompt,    \* the prompt of the synthesis call, once issued
    synthesis,          \* the outcome of the synthesis call
    path,               \* the branch of step 4 taken: none, validated, fallback
    issued,             \* the external calls issued so far, by kind
    outOfOrder,         \* a chunk call settled before one of lower index
    response,           \* the response returned to the caller
    cancelled,          \* the caller has aborted the request
    scheduledAfterCancel, \* an external call was issued after the abort
    splitInput,         \* the arguments of a call of splitTranscript on a text
    splitOutput,        \* the chunks it returned
    display,            \* VideoSummaryDisplay: its videoId prop and React state
    effects,            \* the runs of its effect: flag, signal, position
    list,               \* VideoList and useVideos: their React state
    fetches             \* the fetches of useVideos, in the order of issue

pipelineVars ==
    <<pc, videoId, GROQ_API_KEY, YOUTUBE_API_KEY, transcriptResponse,
      fullTranscriptText, videoDetailsResponse, videoTitle, chunks, calls,
      chunkSummaries, validSummaries, synthesisPrompt, synthesis, path, issued,
      outOfOrder, response, cancelled, scheduledAfterCancel>>

splitVars == <<splitInput, splitOutput>>

displayVars == <<display, effects>>

listVars == <<list, fetches>>

\* the variables the handler's steps leave alone
otherVars == <<splitVars, displayVars, listVars>>

vars == <<pipelineVars, otherVars>>

VideoIds == {JNull, JStr(<< >>), JStr(<<"dQw4w9WgXcQ">>)}

Pending == [st |-> "pending", content |-> Undefined]

\* a fetch that has not settled, one that rejected, one that resolved with r
NoFetch == [st |-> "none"]

FetchRejected == [st |-> "rejected"]

FetchResolved(r) == [st |-> "resolved", r |-> r]

\* what the handler keeps of a transcript response: of a list of segments only
\* whether it is empty and whether the joined text is blank (transcriptItems is
\* not read again once fullTranscriptText is built)
TranscriptRead(r) ==
    IF r.ok /\ r.hasArray
    THEN [ok |-> TRUE, json |-> TRUE, hasArray |-> TRUE,
          empty |-> Len(r.transcript) = 0,
          blank |-> \A i \in DOMAIN r.transcript : r.transcript[i].words = 0]
    ELSE r

InitPipeline ==
    /\ pc = "Idle"
    /\ videoId \in VideoIds
    /\ GROQ_API_KEY \in BOOLEAN
    /\ YOUTUBE_API_KEY \in BOOLEAN
    /\ transcriptResponse = NoFetch
    /\ fullTranscriptText = Undefined
    /\ videoDetailsResponse = NoFetch
    /\ videoTitle = << >>
    /\ chunks = << >>
    /\ calls = << >>
    /\ chunkSummaries = << >>
    /\ validSummaries = << >>
    /\ synthesisPrompt = Undefined
    /\ synthesis = [st |-> "none"]
    /\ path = "none"
    /\ issued = [transcript |-> 0, details |-> 0, chunk |-> 0, synthesis |-> 0]
    /\ outOfOrder = FALSE
    /\ response = NoResponse
    /\ cancelled = FALSE
    /\ scheduledAfterCancel = FALSE

\* no call of splitTranscript on a text
NoSplit == [st |-> "none"]

SplitIdle ==
    /\ splitInput = NoSplit
    /\ splitOutput = NoSplit

\* VideoSummaryDisplay is not rendered
DisplayIdle ==
    /\ display = [mounted |-> FALSE]
    /\ effects = << >>

\* VideoList is not rendered
ListIdle ==
    /\ list = [mounted |-> FALSE]
    /\ fetches = << >>

\* a request for which the keys are configured and no videoId is given: the
\* handler is not called
PipelineIdle ==
    /\ InitPipeline
    /\ videoId = JNull
    /\ GROQ_API_KEY
    /\ YOUTUBE_API_KEY

Init ==
    /\ InitPipeline
    /\ SplitIdle
    /\ DisplayIdle
    /\ ListIdle

\* the handler ends without a response
Return_NoResponse(r) ==
    /\ pc' = "Done"
    /\ UNCHANGED response

\* a return of the handler
Return(r) ==
    /\ response' = r
    /\ pc' = "Done"

\* throw new Error(message) inside the try block: the catch block answers
Throw(message) == Return(CatchResponse(message))

\* the handler never reads request.signal: an abort of the caller changes
\* nothing of what it does; the model records the calls issued after it
RecordScheduling ==
    /\ scheduledAfterCancel' = (scheduledAfterCancel \/ (cancelled /\ issued' # issued))
    /\ UNCHANGED cancelled

\* the entry without the two tests of the API keys
HandleRequest_NoKeyGuards ==
    /\ pc = "Idle"
    /\ IF ~Truthy(videoId)
       THEN /\ Return(ErrorResponse(<<"Video ID is required">>, 400))
            /\ UNCHANGED issued
       ELSE /\ pc' = "AwaitTranscript"
            /\ issued' = [issued EXCEPT !.transcript = @ + 1]
            /\ UNCHANGED response
    /\ RecordScheduling
    /\ UNCHANGED <<videoId, GROQ_API_KEY, YOUTUBE_API_KEY, transcriptResponse,
                   fullTranscriptText, videoDetailsResponse, videoTitle, chunks,
                   calls, chunkSummaries, validSummaries, synthesisPrompt,
                   synthesis, path, outOfOrder>>
    /\ UNCHANGED otherVars

\* lines 30-62: the guards, then the transcript fetch is issued
HandleRequest ==
    /\ pc = "Idle"
    /\ IF ~Truthy(videoId)
       THEN /\ Return(ErrorResponse(<<"Video ID is required">>, 400))
            /\ UNCHANGED issued
       ELSE IF ~GROQ_API_KEY
       THEN /\ Return(ErrorResponse(<<"Groq", " API key is not configured">>, 500))
            /\ UNCHANGED issued
       ELSE IF ~YOUTUBE_API_KEY
       THEN /\ Return(ErrorResponse(<<"YouTube API key is not configured">>, 500))
            /\ UNCHANGED issued
       ELSE /\ pc' = "AwaitTranscript"
            /\ issued' = [issued EXCEPT !.transcript = @ + 1]
            /\ UNCHANGED response
    /\ RecordScheduling
    /\ UNCHANGED <<videoId, GROQ_API_KEY, YOUTUBE_API_KEY, transcriptResponse,
                   fullTranscriptText, videoDetailsResponse, videoTitle, chunks,
                   calls, chunkSummaries, validSummaries, synthesisPrompt,
                   synthesis, path, outOfOrder>>
    /\ UNCHANGED otherVars

\* lines 64-106: the transcript response is read, then the details fetch is issued
TranscriptResponds ==
    /\ pc = "AwaitTranscript"
    /\ \/ /\ transcriptResponse' = FetchRejected
          /\ Throw(<<"fetch failed">>)
          /\ UNCHANGED <<fullTranscriptText, issued>>
       \/ \E r \in TranscriptResponses :
            /\ transcriptResponse' = FetchResolved(TranscriptRead(r))
            /\ IF ~r.ok
               THEN LET error == IF r.json THEN r.error
                                 ELSE <<"Failed to fetch ", "transcript", ": ">>
                                      \o r.statusText
                    IN /\ Throw(IF Len(error) > 0 THEN error
                                ELSE <<"Failed to fetch ", "transcript">>)
                       /\ UNCHANGED <<fullTranscriptText, issued>>
               ELSE IF ~r.hasArray
               THEN /\ Throw(<<"Transcript data is not in the expected format (array)">>)
                    /\ UNCHANGED <<fullTranscriptText, issued>>
               ELSE IF IsBlank(FullTranscriptText(r.transcript))
               THEN /\ Throw(<<"No ", "transcript", " text available for this video">>)
                    /\ UNCHANGED <<fullTranscriptText, issued>>
               ELSE /\ fullTranscriptText' = FullTranscriptText(r.transcript)
                    /\ pc' = "AwaitVideoDetails"
                    /\ issued' = [issued EXCEPT !.details = @ + 1]
                    /\ UNCHANGED response
    /\ RecordScheduling
    /\ UNCHANGED <<videoId, GROQ_API_KEY, YOUTUBE_API_KEY, videoDetailsResponse,
                   videoTitle, chunks, calls, chunkSummaries, validSummaries,
                   synthesisPrompt, synthesis, path, outOfOrder>>
    /\ UNCHANGED otherVars

\* lines 108-172: the details response is read, the transcript is split and one
\* completion is requested for every chunk
VideoDetailsResponds ==
    /\ pc = "AwaitVideoDetails"
    /\ \/ /\ videoDetailsResponse' = FetchRejected
          /\ Throw(<<"fetch failed">>)
          /\ UNCHANGED <<videoTitle, chunks, calls, chunkSummaries, issued>>
       \/ \E r \in VideoDetailsResponses :
            /\ videoDetailsResponse' = FetchResolved(r)
            /\ IF ~r.ok
               THEN LET message == IF r.json THEN r.message
                                   ELSE <<"Failed to fetch video details: ">>
                                        \o r.statusText
                    IN /\ Throw(IF Len(message) > 0 THEN message
                                ELSE <<"Failed to fetch video details">>)
                       /\ UNCHANGED <<videoTitle, chunks, calls, chunkSummaries, issued>>
               ELSE LET split == splitTranscript(fullTranscriptText, CHUNK_SIZE, MAX_CHUNKS)
                    IN /\ videoTitle' = VideoTitle(r.title, videoId.s)
                       /\ chunks' = split
                       /\ IF Len(split) = 0
                          THEN /\ Throw(<<"Transcript too short to process">>)
                               /\ UNCHANGED <<calls, chunkSummaries, issued>>
                          ELSE /\ calls' = [k \in DOMAIN split |-> Pending]
                               /\ chunkSummaries' = [k \in DOMAIN split |-> Undefined]
                               /\ issued' = [issued EXCEPT !.chunk = @ + Len(split)]
                               /\ pc' = "Summarizing"
                               /\ UNCHANGED response
    /\ RecordScheduling
    /\ UNCHANGED <<videoId, GROQ_API_KEY, YOUTUBE_API_KEY, transcriptResponse,
                   fullTranscriptText, validSummaries, synthesisPrompt, synthesis,
                   path, outOfOrder>>
    /\ UNCHANGED otherVars

\* the fan-in that resolves with the first call that settles (Promise.race)
AllSettled_Any(cs) == \E k \in DOMAIN cs : cs[k].st # "pending"

AllSettled(cs) == \A k \in DOMAIN cs : cs[k].st # "pending"

\* lines 173-227: the completion of chunk k resolves or rejects and the callback
\* returns its summary; when it is the last one Promise.all resolves, the
\* summaries are filtered and the synthesis call is issued
ChunkCallSettles ==
    /\ pc = "Summarizing"
    /\ \E k \in DOMAIN calls, outcome \in ChunkOutcomes :
         /\ calls[k].st = "pending"
         /\ calls' = [calls EXCEPT ![k] = outcome]
         /\ chunkSummaries' =
                PromiseAllSettle(chunkSummaries, k, ChunkSummary(k - 1, outcome))
         /\ outOfOrder' = (outOfOrder \/ \E j \in 1..(k - 1) : calls[j].st = "pending")
    /\ IF ~AllSettled(calls')
       THEN UNCHANGED <<pc, validSummaries, synthesisPrompt, issued, response>>
       ELSE LET valid == ValidSummaries(chunkSummaries')
            IN /\ validSummaries' = valid
               /\ IF Len(valid) = 0
                  THEN /\ Throw(<<"Failed to generate summaries for video sections.">>)
                       /\ UNCHANGED <<synthesisPrompt, issued>>
                  ELSE /\ synthesisPrompt' = SynthesisPrompt(videoTitle, valid)
                       /\ issued' = [issued EXCEPT !.synthesis = @ + 1]
                       /\ pc' = "Synthesizing"
                       /\ UNCHANGED response
    /\ RecordScheduling
    /\ UNCHANGED <<videoId, GROQ_API_KEY, YOUTUBE_API_KEY, transcriptResponse,
                   fullTranscriptText, videoDetailsResponse, videoTitle, chunks,
                   synthesis, path>>
    /\ UNCHANGED otherVars

\* lines 229-268: the synthesis call resolves or rejects; its content is parsed
\* and validated, and the catch branch builds the fallback article
SynthesisSettles ==
    /\ pc = "Synthesizing"
    /\ \E outcome \in SynthesisOutcomes :
         /\ synthesis' = outcome
         /\ IF outcome.st = "rejected"
            THEN Throw(outcome.message) /\ UNCHANGED path
            ELSE IF HasNoContent(outcome.content)
            THEN /\ Throw(<<"Failed to generate the final article structure.">>)
                 /\ UNCHANGED path
            ELSE LET parsed == ParseAndValidate(outcome.content.s)
                 IN IF parsed.ok
                    THEN /\ path' = "validated"
                         /\ Return(ArticleResponse(parsed.v))
                    ELSE /\ path' = "fallback"
                         /\ Return(ArticleResponse(
                                FallbackArticle(videoTitle, validSummaries)))
    /\ UNCHANGED <<videoId, GROQ_API_KEY, YOUTUBE_API_KEY, transcriptResponse,
                   fullTranscriptText, videoDetailsResponse, videoTitle, chunks,
                   calls, chunkSummaries, validSummaries, synthesisPrompt, issued,
                   outOfOrder, cancelled, scheduledAfterCancel>>
    /\ UNCHANGED otherVars

\* the caller aborts the request (the cleanup of the effect of
\* VideoSummaryDisplay calls controller.abort()): the connection is closed, the
\* handler is not told
CallerCancels ==
    /\ pc \notin {"Idle", "Done"}
    /\ ~cancelled
    /\ cancelled' = TRUE
    /\ UNCHANGED <<pc, videoId, GROQ_API_KEY, YOUTUBE_API_KEY, transcriptResponse,
                   fullTranscriptText, videoDetailsResponse, videoTitle, chunks,
                   calls, chunkSummaries, validSummaries, synthesisPrompt,
                   synthesis, path, issued, outOfOrder, response,
                   scheduledAfterCancel>>
    /\ UNCHANGED otherVars

Next ==
    \/ HandleRequest
    \/ TranscriptResponds
    \/ VideoDetailsResponds
    \/ ChunkCallSettles
    \/ SynthesisSettles

Spec == Init /\ [][Next]_vars

\* the invocation with a caller that may abort at any moment
NextCancel ==
    \/ Next
    \/ CallerCancels

SpecCancel == Init /\ [][NextCancel]_vars

(***************************************************************************)
(* Vocabulary of the properties                                            *)
(***************************************************************************)
Done == pc = "Done"

ReturnedArticle == Done /\ response.kind = "article"

ReturnedError == Done /\ response.kind = "error"

NonEmptyString(v) == IsString(v) /\ Len(v.s) > 0

\* the structural invariants of an Article: non-empty title, introduction and
\* conclusion, and a non-empty list of sections with non-empty title and content
WellFormedArticle(a) ==
    /\ IsObject(a)
    /\ \A k \in ArticleKeys : HasKey(a, k)
    /\ NonEmptyString(a.f[<<"title">>])
    /\ NonEmptyString(a.f[<<"introduction">>])
    /\ NonEmptyString(a.f[<<"conclusion">>])
    /\ IsArray(a.f[<<"sections">>])
    /\ Len(a.f[<<"sections">>].items) > 0
    /\ \A i \in DOMAIN a.f[<<"sections">>].items :
         LET section == a.f[<<"sections">>].items[i]
         IN /\ IsObject(section)
            /\ \A k \in SectionKeys : HasKey(section, k) /\ NonEmptyString(section.f[k])

\* a chunk call failed: it threw, or it returned no text
ChunkFailed(call) ==
    \/ call.st = "rejected"
    \/ call.st = "resolved" /\ ~NonEmptyString(call.content)

\* a chunk call is Ok: it returned non-empty text
ChunkOk(call) == call.st = "resolved" /\ NonEmptyString(call.content)

FanInComplete == Len(calls) > 0 /\ AllSettled(calls)

\* the synthesis call returned text
SynthesisReturnedText == synthesis.st = "resolved" /\ NonEmptyString(synthesis.content)

\* the summary texts of the Ok chunk calls, in ascending chunk index
OkSummaries ==
    LET ok == SelectSeq([k \in DOMAIN calls |-> calls[k]], ChunkOk)
    IN [i \in DOMAIN ok |-> ok[i].content]

(***************************************************************************)
(* C1                                                                      *)
(***************************************************************************)
\* C1: every invocation that terminates returns an Article that satisfies the
\* structural invariants (non-empty title, introduction, conclusion, non-empty
\* sections with non-empty title and content) or one error with a message.
C1_ArticleWellFormedOrError ==
    Done =>
        \/ response.kind = "error" /\ Len(response.error) > 0
        \/ response.kind = "article" /\ WellFormedArticle(response.article)

(***************************************************************************)
(* C2                                                                      *)
(***************************************************************************)
\* C2: when every chunk call failed (threw or returned empty text) the
\* invocation ends with an error, no Article is returned and the synthesis call
\* is never issued; the synthesis call is issued only when a chunk call is Ok.
C2_AllChunksFailedIsFatal ==
    /\ (FanInComplete /\ \A k \in DOMAIN calls : ChunkFailed(calls[k]))
          => /\ ReturnedError
             /\ path = "none"
             /\ issued.synthesis = 0
             /\ synthesis.st = "none"
    /\ (pc = "Synthesizing" \/ issued.synthesis > 0)
          => \E k \in DOMAIN calls : ChunkOk(calls[k])

\* C2 witness: several chunk calls, one threw and one returned empty text, none
\* succeeded, and the invocation has ended
C2_Witness ==
    /\ Done
    /\ Len(calls) >= 2
    /\ \A k \in DOMAIN calls : ChunkFailed(calls[k])
    /\ \E k \in DOMAIN calls : calls[k].st = "rejected"
    /\ \E k \in DOMAIN calls : calls[k].st = "resolved"

(***************************************************************************)
(* C3                                                                      *)
(***************************************************************************)
\* C3: when the synthesis call returns non-empty text that fails parsing or
\* schema validation, the caller receives a success response with the fallback
\* article: title = titleHint + " - Summary", one section "Key Points" whose
\* content is the usable summaries joined by a blank line in index order, and
\* the fixed introduction and conclusion.
C3_InvalidSynthesisGivesFallback ==
    (Done /\ SynthesisReturnedText /\ ~ParseAndValidate(synthesis.content.s).ok) =>
        LET usable == ValidSummaries([k \in DOMAIN calls |->
                                         ChunkSummary(k - 1, calls[k])])
            a == response.article
        IN /\ response.kind = "article"
           /\ response.status = 200
           /\ path = "fallback"
           /\ DOMAIN a.f = ArticleKeys
           /\ a.f[<<"title">>] = JStr(videoTitle \o <<" - Summary">>)
           /\ a.f[<<"introduction">>] =
                 JStr(<<"This is a summary of the key points discussed in the video \"">>
                      \o videoTitle \o <<"\".">>)
           /\ Len(a.f[<<"sections">>].items) = 1
           /\ a.f[<<"sections">>].items[1].f[<<"title">>] = JStr(<<"Key Points">>)
           /\ a.f[<<"sections">>].items[1].f[<<"content">>] =
                 JStr(Join([i \in DOMAIN usable |-> usable[i].s], <<"\n\n">>))
           /\ a.f[<<"conclusion">>] =
                 JStr(<<"Please refer to the original video for full details.">>)

\* C3 witness: the synthesis call returned "not json" after two different
\* summaries were usable and a chunk between or beside them had failed
C3_Witness ==
    /\ Done
    /\ synthesis = [st |-> "resolved",
                    content |-> JStr(<<Word("not"), Ws, Word("json")>>)]
    /\ response.kind = "article"
    /\ Len(validSummaries) >= 2
    /\ validSummaries[1] # validSummaries[2]
    /\ \E k \in DOMAIN calls : ChunkFailed(calls[k])

(***************************************************************************)
(* C4                                                                      *)
(***************************************************************************)
\* C4: a chunk call's failure is recorded for that chunk only: every sibling
\* call still settles and its result is recorded, and as long as one chunk call
\* succeeded the synthesis call is issued and no chunk failure ends the
\* invocation.
C4_ChunkFailureIsLocal ==
    /\ (Done /\ Len(calls) > 0) =>
          /\ AllSettled(calls)
          /\ \A k \in DOMAIN calls : chunkSummaries[k] = ChunkSummary(k - 1, calls[k])
    /\ (/\ FanInComplete
        /\ \E k \in DOMAIN calls : ChunkFailed(calls[k])
        /\ \E k \in DOMAIN calls : ChunkOk(calls[k])) =>
          /\ issued.synthesis = 1
          /\ response.kind = "error" => synthesis.st # "none"

(***************************************************************************)
(* C5                                                                      *)
(***************************************************************************)
\* C5: whatever the order in which the chunk calls settle, position k of the
\* collected results holds the result of chunk k.
C5_ResultsInChunkOrder ==
    /\ Len(chunkSummaries) = Len(calls)
    /\ \A k \in DOMAIN calls :
         chunkSummaries[k] =
            IF calls[k].st = "pending" THEN Undefined
            ELSE ChunkSummary(k - 1, calls[k])

\* C5 witness: the fan-in completed after a call had settled before one of lower
\* index, and the two first results differ
C5_Witness ==
    /\ FanInComplete
    /\ outOfOrder
    /\ Len(calls) >= 2
    /\ chunkSummaries[1] # chunkSummaries[2]
    /\ pc = "Synthesizing"

(***************************************************************************)
(* C6                                                                      *)
(***************************************************************************)
\* C6: when at least one chunk result is Ok, the usable summaries of the gate
\* are exactly the texts of the Ok results in ascending chunk index.
C6_GateKeepsExactlyOkSummaries ==
    (FanInComplete /\ \E k \in DOMAIN calls : ChunkOk(calls[k])) =>
        validSummaries = OkSummaries

(***************************************************************************)
(* C7                                                                      *)
(***************************************************************************)
\* what C7 says the validator rejects: text that is no JSON, an object without
\* a required field or with a section without title or content, and an object
\* whose sections list is empty
MustBeRejected(text) ==
    LET p == JSONParse(Trim(text)) IN
    \/ ~p.ok
    \/ ~IsObject(p.v)
    \/ \E k \in ArticleKeys : ~HasKey(p.v, k)
    \/ /\ IsArray(p.v.f[<<"sections">>])
       /\ \/ Len(p.v.f[<<"sections">>].items) = 0
          \/ \E i \in DOMAIN p.v.f[<<"sections">>].items :
               \E k \in SectionKeys : ~HasKey(p.v.f[<<"sections">>].items[i], k)

\* C7: a synthesis output that is not JSON, misses a required field or has an
\* empty sections list is routed to the fallback and never returned as the Article.
C7_ValidatorRejects ==
    (Done /\ SynthesisReturnedText /\ MustBeRejected(synthesis.content.s)) =>
        path = "fallback"

(***************************************************************************)
(* C8                                                                      *)
(***************************************************************************)
\* the synthesis call returned a JSON object that the schema accepts
SynthesisMatchesSchema ==
    /\ SynthesisReturnedText
    /\ JSONParse(Trim(synthesis.content.s)).ok
    /\ ArticleSchemaOk(JSONParse(Trim(synthesis.content.s)).v)

\* C8 as stated: when the synthesis call returns a JSON object matching the
\* schema, the Article returned equals the parsed object and the fallback is
\* not taken.
C8_ReturnedEqualsParsedObject ==
    (Done /\ SynthesisMatchesSchema) =>
        /\ path = "validated"
        /\ response.kind = "article"
        /\ response.article = JSONParse(Trim(synthesis.content.s)).v

\* C8 amended: the Article returned holds exactly the keys of the schema, each
\* with the value of the parsed object: title, introduction and conclusion
\* unchanged, the sections in the same number and order, each with exactly its
\* title and content unchanged; the fallback is not taken.
C8_ReturnedEqualsParsedSchemaFields ==
    (Done /\ SynthesisMatchesSchema) =>
        LET parsed == JSONParse(Trim(synthesis.content.s)).v
            a == response.article
        IN /\ path = "validated"
           /\ response.kind = "article"
           /\ DOMAIN a.f = ArticleKeys
           /\ \A k \in ArticleKeys \ {<<"sections">>} : a.f[k] = parsed.f[k]
           /\ Len(a.f[<<"sections">>].items) = Len(parsed.f[<<"sections">>].items)
           /\ \A i \in DOMAIN a.f[<<"sections">>].items :
                /\ DOMAIN a.f[<<"sections">>].items[i].f = SectionKeys
                /\ \A k \in SectionKeys :
                     a.f[<<"sections">>].items[i].f[k] =
                        parsed.f[<<"sections">>].items[i].f[k]

\* C8 witness: a schema-matching object with keys of its own was returned and
\* answered
C8_Witness ==
    /\ Done
    /\ SynthesisMatchesSchema
    /\ synthesis.content.s = ExtraKeysText
    /\ response.kind = "article"

(***************************************************************************)
(* C9                                                                      *)
(***************************************************************************)
\* C9: for the title and the usable summaries the gate lets through, the
\* fallback article satisfies every Article invariant and has exactly one
\* section; the fallback cannot fail.
C9_FallbackIsWellFormed ==
    /\ pc = "Synthesizing" =>
          /\ Len(validSummaries) > 0
          /\ WellFormedArticle(FallbackArticle(videoTitle, validSummaries))
          /\ Len(FallbackArticle(videoTitle, validSummaries).f[<<"sections">>].items) = 1
    /\ path = "fallback" =>
          /\ ReturnedArticle
          /\ WellFormedArticle(response.article)
          /\ Len(response.article.f[<<"sections">>].items) = 1

\* C9 witness: the fallback was returned with the placeholder title and one
\* usable summary, the other chunk calls having returned nothing
C9_Witness ==
    /\ Done
    /\ path = "fallback"
    /\ videoTitle = <<"Video ", "dQw4w9WgXcQ">>
    /\ Len(validSummaries) = 1
    /\ \E k \in DOMAIN calls : calls[k].st = "resolved" /\ ~NonEmptyString(calls[k].content)

(***************************************************************************)
(* C10                                                                     *)
(***************************************************************************)
\* C10: when the synthesis call throws or returns no content the invocation ends
\* with an error and no fallback article, although usable summaries exist; the
\* fallback is taken only when returned content fails validation.
C10_SynthesisCallFailureIsFatal ==
    /\ (Done /\ synthesis.st # "none" /\ ~SynthesisReturnedText) =>
          /\ response.kind = "error"
          /\ path = "none"
    /\ path = "fallback" =>
          /\ SynthesisReturnedText
          /\ ~ParseAndValidate(synthesis.content.s).ok

\* C10 witness: the synthesis call returned the empty string while usable
\* summaries existed, and the invocation ended
C10_Witness ==
    /\ Done
    /\ synthesis = [st |-> "resolved", content |-> JStr(<< >>)]
    /\ Len(validSummaries) > 0
    /\ response.kind = "error"


(***************************************************************************)
(* Fan-out bound and cancellation                                          *)
(***************************************************************************)
\* the chunk completions requested and not yet settled
InFlight == Cardinality({k \in DOMAIN calls : calls[k].st = "pending"})

\* the values a concurrencyLimit can be configured with; route.ts has no such
\* setting, the range is the one the specification gives it
ConcurrencyLimits == 1..MAX_CHUNKS

\* C11: whatever concurrencyLimit is configured, the chunk calls in flight at
\* any instant are at most that many.
C11_InFlightWithinLimit == \A concurrencyLimit \in ConcurrencyLimits : InFlight <= concurrencyLimit

\* C12: once the caller has cancelled, no further external call is scheduled
\* and the invocation returns no Article.
C12_CancelStopsPipeline ==
    /\ ~scheduledAfterCancel
    /\ cancelled => ~ReturnedArticle


(***************************************************************************)
(* splitTranscript on texts                                                *)
(*   A text is a sequence of characters; a chunk is the text               *)
(*   words.slice(i, i + chunkWordCount).join(" ").                         *)
(***************************************************************************)
MaxTextLen == 7

MaxUnitSize == 2

MaxUnits == 2

\* two letters and a whitespace character
Characters == {"a", "b", " "}

IsWhitespace(c) == c = " "

Texts == UNION {[1..n -> Characters] : n \in 0..MaxTextLen}

\* transcript.split(/\s+/): the pieces between the runs of whitespace, the
\* empty piece before a leading run and after a trailing run included
RECURSIVE SplitOnWhitespace(_, _, _)
SplitOnWhitespace(text, i, piece) ==
    IF i > Len(text) THEN <<piece>>
    ELSE IF IsWhitespace(text[i])
    THEN IF piece = << >> /\ i > 1 /\ IsWhitespace(text[i - 1])
         THEN SplitOnWhitespace(text, i + 1, << >>)
         ELSE <<piece>> \o SplitOnWhitespace(text, i + 1, << >>)
    ELSE SplitOnWhitespace(text, i + 1, Append(piece, text[i]))

\* the split without .filter(Boolean)
Words_KeepsEmpty(transcript) == SplitOnWhitespace(transcript, 1, << >>)

\* transcript.split(/\s+/).filter(Boolean)
Words(transcript) ==
    SelectSeq(SplitOnWhitespace(transcript, 1, << >>), LAMBDA w : Len(w) > 0)

\* splitTranscript(transcript, chunkWordCount, maxChunks), with the chunk texts
splitTranscriptText(transcript, chunkWordCount, maxChunks) ==
    LET words == Words(transcript)
        windows == splitTranscript([words |-> Len(words)], chunkWordCount, maxChunks)
    IN [k \in DOMAIN windows |->
            Join(SubSeq(words, windows[k].lo + 1, windows[k].hi), <<" ">>)]

\* String.prototype.trim on a text of characters
RECURSIVE TrimChars(_)
TrimChars(text) ==
    IF Len(text) = 0 THEN text
    ELSE IF IsWhitespace(text[1]) THEN TrimChars(Tail(text))
    ELSE IF IsWhitespace(text[Len(text)])
    THEN TrimChars(SubSeq(text, 1, Len(text) - 1))
    ELSE text

\* the test without trim()
IsBlankText_EmptyOnly(text) == Len(text) = 0

\* !fullTranscriptText || fullTranscriptText.trim().length === 0
IsBlankText(text) == Len(text) = 0 \/ Len(TrimChars(text)) = 0

SplitInputs ==
    [transcript : Texts, chunkWordCount : 1..MaxUnitSize, maxChunks : 1..MaxUnits]

InitSplit ==
    /\ PipelineIdle
    /\ DisplayIdle
    /\ ListIdle
    /\ splitInput \in SplitInputs
    /\ splitOutput = NoSplit

SplitTranscriptCall ==
    /\ splitOutput = NoSplit
    /\ splitOutput' = [st |-> "returned",
                       chunks |-> splitTranscriptText(splitInput.transcript,
                                                      splitInput.chunkWordCount,
                                                      splitInput.maxChunks)]
    /\ UNCHANGED <<pipelineVars, splitInput, displayVars, listVars>>

NextSplit == SplitTranscriptCall

SpecSplit == InitSplit /\ [][NextSplit]_vars

(***************************************************************************)
(* Properties of splitTranscript                                           *)
(***************************************************************************)
\* the whitespace-delimited tokens of a text: its maximal runs of
\* characters that are not whitespace, from left to right
RECURSIVE TokensOf(_)
TokensOf(text) ==
    IF Len(text) = 0 THEN << >>
    ELSE IF IsWhitespace(text[1]) THEN TokensOf(Tail(text))
    ELSE LET ends == {e \in 1..Len(text) :
                        /\ \A j \in 1..e : ~IsWhitespace(text[j])
                        /\ e = Len(text) \/ IsWhitespace(text[e + 1])}
             e == CHOOSE x \in ends : TRUE
         IN <<SubSeq(text, 1, e)>> \o TokensOf(SubSeq(text, e + 1, Len(text)))

RECURSIVE ChunkTokens(_)
ChunkTokens(cs) ==
    IF Len(cs) = 0 THEN << >> ELSE TokensOf(cs[1]) \o ChunkTokens(Tail(cs))

CeilDiv(a, b) == (a + b - 1) \div b

SplitReturned == splitOutput.st = "returned"

TranscriptTokens == TokensOf(splitInput.transcript)

\* C13: for a transcript of n >= 1 tokens splitTranscript returns exactly
\* min(ceil(n / unitSize), maxUnits) chunks, never more than maxUnits; with
\* unitSize 4000 and maxUnits 5, 50 words give 1 chunk, 12,000 words 3 chunks
\* and 25,000 words 5 chunks.
C13_ChunkCount ==
    /\ SplitReturned /\ Len(TranscriptTokens) >= 1 =>
         /\ Len(splitOutput.chunks) =
                Min(CeilDiv(Len(TranscriptTokens), splitInput.chunkWordCount),
                    splitInput.maxChunks)
         /\ Len(splitOutput.chunks) <= splitInput.maxChunks
    /\ Len(splitTranscript([words |-> 50], CHUNK_SIZE, MAX_CHUNKS)) = 1
    /\ Len(splitTranscript([words |-> 12000], CHUNK_SIZE, MAX_CHUNKS)) = 3
    /\ Len(splitTranscript([words |-> 25000], CHUNK_SIZE, MAX_CHUNKS)) = 5

\* a transcript with more tokens than the chunks can hold was split
C13_Witness ==
    /\ SplitReturned
    /\ CeilDiv(Len(TranscriptTokens), splitInput.chunkWordCount) > splitInput.maxChunks
    /\ Len(splitOutput.chunks) = splitInput.maxChunks

\* C14: the tokens of the chunks, concatenated in chunk order, are the first
\* min(n, unitSize * maxUnits) tokens of the transcript: all of them when
\* maxUnits is not hit, and all but the trailing ones beyond unitSize * maxUnits
\* when it is.
C14_ChunksArePrefix ==
    SplitReturned =>
        ChunkTokens(splitOutput.chunks) =
            SubSeq(TranscriptTokens, 1,
                   Min(Len(TranscriptTokens),
                       splitInput.chunkWordCount * splitInput.maxChunks))

\* a transcript that begins with whitespace was split into chunks of two
\* tokens and lost the tokens beyond unitSize * maxUnits
C14_Witness ==
    /\ SplitReturned
    /\ Len(TranscriptTokens) > splitInput.chunkWordCount * splitInput.maxChunks
    /\ IsWhitespace(splitInput.transcript[1])
    /\ splitInput.chunkWordCount = 2
    /\ TranscriptTokens[1] # TranscriptTokens[2]

\* C15: chunk k (from 0) holds the tokens k * unitSize to (k + 1) * unitSize - 1;
\* every chunk but the last has exactly unitSize tokens, the last between 1 and
\* unitSize, and no chunk is empty.
C15_ChunksAreWindows ==
    SplitReturned =>
        LET cs == splitOutput.chunks
            unitSize == splitInput.chunkWordCount
            n == Len(TranscriptTokens)
        IN \A k \in DOMAIN cs :
             /\ TokensOf(cs[k]) =
                    SubSeq(TranscriptTokens, (k - 1) * unitSize + 1,
                           Min(k * unitSize, n))
             /\ k < Len(cs) => Len(TokensOf(cs[k])) = unitSize
             /\ Len(TokensOf(cs[k])) \in 1..unitSize
             /\ Len(cs[k]) > 0

\* two chunks were returned and the last one is shorter than unitSize
C15_Witness ==
    /\ SplitReturned
    /\ Len(splitOutput.chunks) = 2
    /\ Len(TokensOf(splitOutput.chunks[1])) = 2
    /\ Len(TokensOf(splitOutput.chunks[2])) = 1


(***************************************************************************)
(* Properties of the collaborators' outcomes                               *)
(***************************************************************************)
\* the transcript route answered with a list of segments
TranscriptListed ==
    /\ transcriptResponse.st = "resolved"
    /\ transcriptResponse.r.ok
    /\ transcriptResponse.r.hasArray

\* the list is empty, or every segment's text is blank
TranscriptIsEmpty ==
    /\ TranscriptListed
    /\ transcriptResponse.r.empty \/ transcriptResponse.r.blank

\* C16: when the transcript provider returns an empty segment list, or segments
\* whose joined text is blank, the invocation ends with the empty-transcript
\* error: no Article is returned and no chunk or synthesis call is issued.
C16_EmptyTranscriptIsFatal ==
    TranscriptIsEmpty =>
        /\ ReturnedError
        /\ response.error = <<"No ", "transcript", " text available for this video">>
        /\ issued.chunk = 0
        /\ issued.synthesis = 0

\* segments of blank text were returned and the invocation has ended
C16_Witness ==
    /\ TranscriptIsEmpty
    /\ ~transcriptResponse.r.empty
    /\ Done

\* the details response was read and holds no title
TitleAbsent ==
    /\ videoDetailsResponse.st = "resolved"
    /\ videoDetailsResponse.r.ok
    /\ videoDetailsResponse.r.title \in {Undefined, JStr(<< >>)}

\* C17: when the metadata provider supplies no title the pipeline does not
\* fail on that account: the title used for the synthesis prompt and for the
\* fallback is "Video " + id, and the chunk calls are issued.
C17_MissingTitleIsTolerated ==
    TitleAbsent =>
        /\ videoTitle = <<"Video ">> \o videoId.s
        /\ issued.chunk = Len(chunks)
        /\ Len(chunks) >= 1
        /\ pc \in {"Summarizing", "Synthesizing", "Done"}
        /\ pc \in {"Synthesizing", "Done"} /\ Len(validSummaries) > 0 =>
             synthesisPrompt = SynthesisPrompt(<<"Video ">> \o videoId.s, validSummaries)
        /\ path = "fallback" =>
             response.article =
                 FallbackArticle(<<"Video ">> \o videoId.s, validSummaries)

\* the title was absent and the fallback article was returned
C17_Witness ==
    /\ TitleAbsent
    /\ videoDetailsResponse.r.title = Undefined
    /\ path = "fallback"
    /\ ReturnedArticle

\* the transcript collaborator failed: the fetch failed, or the route answered
\* with an error (transcript disabled or not found, video unavailable, other)
TranscriptCollaboratorFailed ==
    \/ transcriptResponse.st = "rejected"
    \/ transcriptResponse.st = "resolved" /\ ~transcriptResponse.r.ok

\* the metadata collaborator failed: the fetch failed or answered with an error
MetadataCollaboratorFailed ==
    \/ videoDetailsResponse.st = "rejected"
    \/ videoDetailsResponse.st = "resolved" /\ ~videoDetailsResponse.r.ok

\* C18: whenever the transcript or the metadata collaborator fails, the
\* invocation ends in an error with status 502 and no other.
C18_UpstreamFailureIs502 ==
    TranscriptCollaboratorFailed \/ MetadataCollaboratorFailed =>
        ReturnedError /\ response.status = 502

\* every chunk call failed: it was rejected or returned no text
AllChunksFailed ==
    /\ Len(calls) > 0
    /\ \A k \in DOMAIN calls :
         \/ calls[k].st = "rejected"
         \/ calls[k].st = "resolved" /\ calls[k].content \in {JNull, JStr(<< >>)}

\* the synthesis call was rejected or returned no content
SynthesisCallFailed ==
    \/ synthesis.st = "rejected"
    \/ synthesis.st = "resolved" /\ synthesis.content \in {JNull, JStr(<< >>)}

\* C19: a fatal error caused by the generation service (all chunk calls
\* failed, or the synthesis call failed or returned no content) is returned
\* with status 503.
C19_GenerationFailureIs503 ==
    AllChunksFailed \/ SynthesisCallFailed =>
        ReturnedError /\ response.status = 503


(***************************************************************************)
(* Determinism                                                             *)
(*   The output of a run as a function of its inputs (the request, the     *)
(*   configuration) and of the responses of the collaborators (the         *)
(*   transcript response, the details response, the completion of every    *)
(*   chunk by index, the completion of the synthesis prompt), computed     *)
(*   step by step in index order. Two runs with the same inputs and a      *)
(*   deterministic service receive the same responses; if each returns     *)
(*   this value whatever the order in which its chunk calls settled, the   *)
(*   two outputs are identical.                                            *)
(***************************************************************************)
\* the title as a function of the request and the details response
TitleOfRun == VideoTitle(videoDetailsResponse.r.title, videoId.s)

\* the usable summaries as a function of the completions by index
SummariesOfRun ==
    ValidSummaries([k \in DOMAIN calls |-> ChunkSummary(k - 1, calls[k])])

\* the output from the fan-in on
OutputAfterFanIn ==
    IF Len(SummariesOfRun) = 0
    THEN CatchResponse(<<"Failed to generate summaries for video sections.">>)
    ELSE IF synthesis.st = "rejected" THEN CatchResponse(synthesis.message)
    ELSE IF HasNoContent(synthesis.content)
    THEN CatchResponse(<<"Failed to generate the final article structure.">>)
    ELSE LET parsed == ParseAndValidate(synthesis.content.s)
         IN IF parsed.ok THEN ArticleResponse(parsed.v)
            ELSE ArticleResponse(FallbackArticle(TitleOfRun, SummariesOfRun))

\* the output from the details response on
OutputAfterTranscript ==
    IF videoDetailsResponse.st = "rejected" THEN CatchResponse(<<"fetch failed">>)
    ELSE IF ~videoDetailsResponse.r.ok
    THEN LET r == videoDetailsResponse.r
             message == IF r.json THEN r.message
                        ELSE <<"Failed to fetch video details: ">> \o r.statusText
         IN CatchResponse(IF Len(message) > 0 THEN message
                          ELSE <<"Failed to fetch video details">>)
    ELSE OutputAfterFanIn

\* the output of a run that has ended
OutputOfRun ==
    IF ~Truthy(videoId) THEN ErrorResponse(<<"Video ID is required">>, 400)
    ELSE IF ~GROQ_API_KEY
    THEN ErrorResponse(<<"Groq", " API key is not configured">>, 500)
    ELSE IF ~YOUTUBE_API_KEY
    THEN ErrorResponse(<<"YouTube API key is not configured">>, 500)
    ELSE IF transcriptResponse.st = "rejected" THEN CatchResponse(<<"fetch failed">>)
    ELSE LET r == transcriptResponse.r
         IN IF ~r.ok
            THEN LET error == IF r.json THEN r.error
                              ELSE <<"Failed to fetch ", "transcript", ": ">>
                                   \o r.statusText
                 IN CatchResponse(IF Len(error) > 0 THEN error
                                  ELSE <<"Failed to fetch ", "transcript">>)
            ELSE IF ~r.hasArray
            THEN CatchResponse(<<"Transcript data is not in the expected format (array)">>)
            ELSE IF r.blank
            THEN CatchResponse(<<"No ", "transcript", " text available for this video">>)
            ELSE OutputAfterTranscript

\* C20: two runs with identical transcript and metadata and a deterministic
\* generation service produce the same output, whatever the orders in which
\* their chunk calls settle: the output of a run that has ended, and the prompt
\* of the synthesis call it issued, are the values computed from the inputs and
\* the responses alone.
C20_OutputIsFunctionOfInputs ==
    /\ Done => response = OutputOfRun
    /\ synthesisPrompt # Undefined =>
         synthesisPrompt = SynthesisPrompt(TitleOfRun, SummariesOfRun)

\* a run of three chunks ended with the fallback article after its chunk
\* calls had settled out of index order with different summaries
C20_Witness ==
    /\ ReturnedArticle
    /\ path = "fallback"
    /\ outOfOrder
    /\ Len(calls) >= 3
    /\ Len(validSummaries) >= 2
    /\ validSummaries[1] # validSummaries[2]

(***************************************************************************)
(* Labels of the synthesis prompt                                          *)
(***************************************************************************)
\* the indices (from 1) of the chunks whose summary passed the gate, ascending
RECURSIVE UsableIndicesFrom(_)
UsableIndicesFrom(k) ==
    IF k > Len(chunkSummaries) THEN << >>
    ELSE IF chunkSummaries[k] # Undefined /\ IsValidSummary(chunkSummaries[k])
    THEN <<k>> \o UsableIndicesFrom(k + 1)
    ELSE UsableIndicesFrom(k + 1)

\* C21: in the synthesis prompt every usable summary carries the part number
\* of the chunk it was produced from (chunk index + 1), also when chunks of
\* lower index were filtered out.
C21_PartsLabelledByChunk ==
    synthesisPrompt # Undefined =>
        \A i \in DOMAIN synthesisPrompt.parts :
            synthesisPrompt.parts[i].part = UsableIndicesFrom(1)[i]

(***************************************************************************)
(* Termination                                                             *)
(*   Every external call eventually resolves or rejects and the handler's  *)
(*   continuations are run: each step that is enabled is eventually taken. *)
(***************************************************************************)
SpecLive ==
    /\ Init
    /\ [][Next]_vars
    /\ WF_vars(HandleRequest)
    /\ WF_vars(TranscriptResponds)
    /\ WF_vars(VideoDetailsResponds)
    /\ WF_vars(ChunkCallSettles)
    /\ WF_vars(SynthesisSettles)

\* the one response of an invocation that has ended: an Article with status
\* 200 or an error
OneResponse ==
    \/ response.kind = "article" /\ response.status = 200
    \/ response.kind = "error" /\ response.status \in {400, 500, 502, 503}

\* C22: every invocation eventually ends, with exactly one response (an
\* Article or an error): none before the end, one at the end, and none after.
C22_EndsWithOneResponse ==
    /\ <>Done
    /\ [](IF Done THEN OneResponse ELSE response = NoResponse)
    /\ [][~Done /\ (response' # response => Done')]_vars

\* an invocation has ended with an Article after three chunk calls
C22_Witness ==
    /\ ReturnedArticle
    /\ Len(calls) = 3
    /\ OneResponse

(***************************************************************************)
(* A chunk call that does not respond                                      *)
(*   The completion of a chunk is awaited without a timeout and without    *)
(*   an abort signal: nothing in the handler settles a call that the       *)
(*   service leaves unanswered. Every other awaited call settles.          *)
(***************************************************************************)
SpecNoResponse ==
    /\ Init
    /\ [][Next]_vars
    /\ WF_vars(HandleRequest)
    /\ WF_vars(TranscriptResponds)
    /\ WF_vars(VideoDetailsResponds)
    /\ WF_vars(SynthesisSettles)

SynthesisInFlight == issued.synthesis > 0 /\ synthesis.st = "none"

\* C24: at most one synthesis call is issued, and only after every chunk call
\* has settled and the gate has passed; validation or fallback happens only
\* after the synthesis call has returned; no chunk call is in flight while the
\* synthesis call is.
C24_StagesInOrder ==
    /\ issued.synthesis <= 1
    /\ issued.synthesis = 1 =>
         /\ FanInComplete
         /\ Len(validSummaries) > 0
         /\ issued.chunk = Len(calls)
    /\ path # "none" => synthesis.st = "resolved" /\ issued.synthesis = 1
    /\ synthesis.st # "none" => issued.synthesis = 1
    /\ SynthesisInFlight => InFlight = 0 /\ pc = "Synthesizing"

\* the synthesis call is in flight after three chunk calls settled out of order
C24_Witness ==
    /\ SynthesisInFlight
    /\ Len(calls) = 3
    /\ outOfOrder

\* the chunk calls have been issued
FannedOut == Len(calls) > 0

\* C25: for each chunk exactly one request is issued and exactly one result is
\* recorded: a settled call is not issued again and its result is not
\* overwritten; the requests of an invocation are as many as its chunks, at
\* most maxUnits.
C25_OneRequestPerChunk ==
    /\ [](/\ issued.chunk = Len(calls)
          /\ FannedOut => Len(calls) = Len(chunks) /\ Len(chunkSummaries) = Len(chunks)
          /\ Len(chunks) <= MAX_CHUNKS
          /\ Len(splitTranscript([words |-> 25000], CHUNK_SIZE, MAX_CHUNKS)) <= MAX_CHUNKS
          /\ \A k \in DOMAIN calls :
               (calls[k].st = "pending") = (chunkSummaries[k] = Undefined))
    /\ [][/\ FannedOut => issued'.chunk = issued.chunk /\ chunks' = chunks
          /\ \A k \in DOMAIN calls :
               calls[k].st # "pending" =>
                   /\ calls'[k] = calls[k]
                   /\ chunkSummaries'[k] = chunkSummaries[k]]_vars

\* three requests were issued for three chunks, the first of which failed, and
\* all results are recorded
C25_Witness ==
    /\ issued.chunk = 3
    /\ Len(chunks) = 3
    /\ FanInComplete
    /\ calls[1].st = "rejected"

(***************************************************************************)
(* Guards                                                                  *)
(***************************************************************************)
NoExternalCall ==
    issued = [transcript |-> 0, details |-> 0, chunk |-> 0, synthesis |-> 0]

\* the transcript fetch succeeded with text that is not blank
TranscriptSucceeded ==
    /\ TranscriptListed
    /\ ~transcriptResponse.r.empty
    /\ ~transcriptResponse.r.blank

MetadataSucceeded ==
    /\ videoDetailsResponse.st = "resolved"
    /\ videoDetailsResponse.r.ok

\* C26: a generation call (chunk or synthesis) is issued only if the request
\* carries a videoId, both API keys are configured, the transcript fetch
\* succeeded with non-blank text and the metadata fetch succeeded; a request
\* without videoId ends with status 400 and one with a missing API key with
\* status 500, both before any external call.
C26_GuardsBeforeCalls ==
    /\ issued.chunk > 0 \/ issued.synthesis > 0 =>
         /\ IsString(videoId) /\ Len(videoId.s) > 0
         /\ GROQ_API_KEY
         /\ YOUTUBE_API_KEY
         /\ TranscriptSucceeded
         /\ MetadataSucceeded
    /\ Done /\ (videoId = JNull \/ videoId = JStr(<< >>)) =>
         /\ ReturnedError
         /\ response.status = 400
         /\ NoExternalCall
    /\ Done /\ IsString(videoId) /\ Len(videoId.s) > 0
            /\ (~GROQ_API_KEY \/ ~YOUTUBE_API_KEY) =>
         /\ ReturnedError
         /\ response.status = 500
         /\ NoExternalCall

\* a request with a videoId and the Groq key but without the YouTube key has
\* been answered
C26_Witness ==
    /\ Done
    /\ IsString(videoId) /\ Len(videoId.s) > 0
    /\ GROQ_API_KEY
    /\ ~YOUTUBE_API_KEY
    /\ response.status = 500

(***************************************************************************)
(* The blank check and the split                                           *)
(***************************************************************************)
\* C27: when the blank check passes (the text is not empty after trimming),
\* splitTranscript returns at least one chunk, with CHUNK_SIZE and MAX_CHUNKS
\* as with any other sizes: the branch "Transcript too short to process" is
\* not reached.
C27_NonBlankGivesAChunk ==
    SplitReturned /\ ~IsBlankText(splitInput.transcript) =>
        /\ Len(splitOutput.chunks) >= 1
        /\ Len(splitTranscriptText(splitInput.transcript, CHUNK_SIZE, MAX_CHUNKS)) >= 1

\* a text of one word between whitespace passed the check and was split
C27_Witness ==
    /\ SplitReturned
    /\ ~IsBlankText(splitInput.transcript)
    /\ IsWhitespace(splitInput.transcript[1])
    /\ IsWhitespace(splitInput.transcript[Len(splitInput.transcript)])
    /\ Len(TranscriptTokens) = 1
    /\ Len(splitOutput.chunks) = 1

(***************************************************************************)
(* VideoSummaryDisplay: the effect that fetches the summary                *)
(*   display: [mounted, videoId, article, loading, error, effectPending]   *)
(*   effects[e]: one run of the effect: [videoId, isMounted, aborted, pc,  *)
(*   response], pc being fetch (awaiting fetch), json (awaiting            *)
(*   response.json()) or done                                              *)
(***************************************************************************)
MaxEffects == 3

\* values of the videoId prop: missing, and two videos
DisplayVideoIds == {"", "v1", "v2"}

\* what /api/summarize answers for a video: an article, a body without
\* article, an error
SummarizeResponses(v) ==
    {[ok |-> TRUE, article |-> [title |-> "Article", videoId |-> v]],
     [ok |-> TRUE, article |-> JNull],
     [ok |-> FALSE, error |-> JStr(<<"Failed to generate summaries for video sections.">>)]}

\* if (isMounted) { set...(...) }
SetIfMounted(effect, updated) == IF effect.isMounted THEN updated ELSE display

\* the cleanup function of the runs so far: isMounted = false; controller.abort()
Cleanup == [e \in DOMAIN effects |->
                [effects[e] EXCEPT !.isMounted = FALSE, !.aborted = TRUE]]

\* the state of the component at its first render
FirstRender(v) ==
    [mounted |-> TRUE, videoId |-> v, article |-> JNull, loading |-> TRUE,
     error |-> JNull, effectPending |-> TRUE]

InitDisplay ==
    /\ PipelineIdle
    /\ SplitIdle
    /\ ListIdle
    /\ DisplayIdle

\* the component is rendered for the first time; its effect is scheduled
Mount ==
    /\ display = [mounted |-> FALSE]
    /\ \E v \in DisplayVideoIds : display' = FirstRender(v)
    /\ UNCHANGED effects
    /\ UNCHANGED <<pipelineVars, splitVars, listVars>>

\* the videoId prop changes: the component is rendered with the new prop and
\* the state it has; the cleanup and the effect are scheduled
ChangeVideoId ==
    /\ display.mounted
    /\ ~display.effectPending
    /\ Len(effects) < MaxEffects
    /\ \E v \in DisplayVideoIds \ {display.videoId} :
         display' = [display EXCEPT !.videoId = v, !.effectPending = TRUE]
    /\ UNCHANGED effects
    /\ UNCHANGED <<pipelineVars, splitVars, listVars>>

\* the scheduled effects run: the cleanup of the previous run, then the
\* effect for the current videoId, up to its await fetch(...)
RunEffect ==
    /\ display.mounted
    /\ display.effectPending
    /\ IF display.videoId = ""
       THEN /\ display' = [display EXCEPT
                              !.error = JStr(<<"Video ID is missing in the URL.">>),
                              !.loading = FALSE,
                              !.effectPending = FALSE]
            /\ effects' = Cleanup
       ELSE /\ display' = [display EXCEPT !.loading = TRUE, !.error = JNull,
                                          !.article = JNull,
                                          !.effectPending = FALSE]
            /\ effects' = Append(Cleanup,
                                 [videoId |-> display.videoId, isMounted |-> TRUE,
                                  aborted |-> FALSE, pc |-> "fetch",
                                  response |-> JNull])
    /\ UNCHANGED <<pipelineVars, splitVars, listVars>>

\* the component is removed: cleanup of the last run
Unmount ==
    /\ display.mounted
    /\ ~display.effectPending
    /\ display' = [display EXCEPT !.mounted = FALSE]
    /\ effects' = Cleanup
    /\ UNCHANGED <<pipelineVars, splitVars, listVars>>

\* await fetch(...) of run e settles: it rejects with AbortError when the
\* signal is aborted, else it rejects with a network error or resolves
FetchSettles ==
    /\ \E e \in DOMAIN effects :
         /\ effects[e].pc = "fetch"
         /\ IF effects[e].aborted
            THEN /\ effects' = [effects EXCEPT ![e].pc = "done"]
                 /\ display' = SetIfMounted(effects[e],
                                            [display EXCEPT !.loading = FALSE])
            ELSE \/ /\ effects' = [effects EXCEPT ![e].pc = "done"]
                    /\ display' = SetIfMounted(effects[e],
                                     [display EXCEPT !.error = JStr(<<"Failed to fetch">>),
                                                     !.loading = FALSE])
                 \/ \E r \in SummarizeResponses(effects[e].videoId) :
                      /\ effects' = [effects EXCEPT ![e].pc = "json",
                                                    ![e].response = r]
                      /\ UNCHANGED display
    /\ UNCHANGED <<pipelineVars, splitVars, listVars>>

\* the state after the body of run e was read as data
AfterJson(effect, data) ==
    IF ~data.ok
    THEN SetIfMounted(effect, [display EXCEPT !.error = data.error, !.loading = FALSE])
    ELSE IF data.article = JNull
    THEN SetIfMounted(effect,
             [display EXCEPT !.error = JStr(<<"Summary data is missing in the API response.">>),
                             !.loading = FALSE])
    ELSE SetIfMounted(effect,
             [display EXCEPT !.article = data.article, !.loading = FALSE])

\* await response.json() of run e settles; when the signal was aborted
\* meanwhile the body is read or the read rejects with AbortError
JsonSettles ==
    /\ \E e \in DOMAIN effects :
         /\ effects[e].pc = "json"
         /\ effects' = [effects EXCEPT ![e].pc = "done"]
         /\ \/ display' = AfterJson(effects[e], effects[e].response)
            \/ /\ effects[e].aborted
               /\ display' = SetIfMounted(effects[e],
                                          [display EXCEPT !.loading = FALSE])
    /\ UNCHANGED <<pipelineVars, splitVars, listVars>>

NextDisplay ==
    \/ Mount
    \/ ChangeVideoId
    \/ RunEffect
    \/ Unmount
    \/ FetchSettles
    \/ JsonSettles

SpecDisplay == InitDisplay /\ [][NextDisplay]_vars

\* run e took a step of its fetch
EffectStepped(e) == e \in DOMAIN effects' /\ effects'[e].pc # effects[e].pc

\* the component renders the article: it is mounted, not loading, without
\* error and holds an article
ArticleDisplayed ==
    /\ display # [mounted |-> FALSE]
    /\ display.mounted
    /\ ~display.loading
    /\ display.error = JNull
    /\ display.article # JNull

\* C28: once the effect for a videoId has been cleaned up, its fetch never
\* updates article, error or loading, whatever the order in which the old and
\* the new responses arrive; an article that is displayed is the response for
\* the current videoId.
C28_SupersededFetchIsIgnored ==
    /\ [][\A e \in DOMAIN effects :
            ~effects[e].isMounted /\ EffectStepped(e) => display' = display]_vars
    /\ [](ArticleDisplayed => display.article.videoId = display.videoId)

(***************************************************************************)
(* VideoList, useVideos and /api/videos                                    *)
(*   list: [mounted, selectedChannelId, currentPage, videos, isLoading,    *)
(*   error, totalPages, effectPending]                                     *)
(*   fetches[i]: [channelId, page, st, response], st pending or settled    *)
(***************************************************************************)
MAX_RESULTS == 9

MaxFetches == 4

\* the channels of the selector, the first one selected at the start
Channels == <<"UC_first", "UC_second">>

\* pageInfo.totalResults of the YouTube search for a channel
TotalResults(channelId) == IF channelId = Channels[1] THEN 20 ELSE 5

\* Math.ceil(Math.min(totalResults, 200) / MAX_RESULTS)
TotalPages(totalResults) == CeilDiv(Min(totalResults, 200), MAX_RESULTS)

\* the items of a search: those of a channel from the start of its list (no
\* pageToken is sent), at most MAX_RESULTS of them
SearchItems(channelId) ==
    [channelId |-> channelId, first |-> 1,
     last |-> Min(TotalResults(channelId), MAX_RESULTS)]

\* GET /api/videos?channelId=..&page=..: page is parsed and not used
VideosRoute(channelId, page, youtubeOk) ==
    IF youtubeOk
    THEN [ok |-> TRUE, videos |-> SearchItems(channelId),
          totalPages |-> TotalPages(TotalResults(channelId))]
    ELSE [ok |-> FALSE, error |-> JStr(<<"Failed to fetch videos from YouTube API">>)]

NoVideos == [channelId |-> "", first |-> 1, last |-> 0]

InitList ==
    /\ PipelineIdle
    /\ SplitIdle
    /\ DisplayIdle
    /\ ListIdle

\* the first render of VideoList: the initial values of useState
MountList ==
    /\ list = [mounted |-> FALSE]
    /\ list' = [mounted |-> TRUE, selectedChannelId |-> Channels[1],
                currentPage |-> 1, videos |-> NoVideos, isLoading |-> TRUE,
                error |-> JNull, totalPages |-> 1, effectPending |-> TRUE]
    /\ UNCHANGED fetches
    /\ UNCHANGED <<pipelineVars, splitVars, displayVars>>

\* the effect of useVideos runs for the current (channelId, page): fetchVideos
\* up to its await fetch(...)
fetchVideos ==
    /\ list.mounted
    /\ list.effectPending
    /\ list' = [list EXCEPT !.isLoading = TRUE, !.error = JNull,
                            !.effectPending = FALSE]
    /\ fetches' = Append(fetches, [channelId |-> list.selectedChannelId,
                                   page |-> list.currentPage, st |-> "pending",
                                   response |-> JNull])
    /\ UNCHANGED <<pipelineVars, splitVars, displayVars>>

\* the user selects another channel
handleChannelChange ==
    /\ list.mounted
    /\ ~list.effectPending
    /\ Len(fetches) < MaxFetches
    /\ \E i \in DOMAIN Channels :
         /\ Channels[i] # list.selectedChannelId
         /\ list' = [list EXCEPT !.selectedChannelId = Channels[i],
                                 !.currentPage = 1,
                                 !.effectPending = TRUE]
    /\ UNCHANGED fetches
    /\ UNCHANGED <<pipelineVars, splitVars, displayVars>>

\* the pagination is rendered
PaginationShown ==
    /\ ~list.isLoading
    /\ list.error = JNull
    /\ list.videos.last >= list.videos.first
    /\ list.totalPages > 1

\* the pages the two buttons ask for, a disabled button asking for none
PageButtons ==
    (IF list.currentPage = 1 THEN {} ELSE {list.currentPage - 1})
    \cup (IF list.currentPage = list.totalPages THEN {} ELSE {list.currentPage + 1})

\* the user clicks a pagination button: handlePageChange(newPage)
handlePageChange ==
    /\ list.mounted
    /\ ~list.effectPending
    /\ Len(fetches) < MaxFetches
    /\ PaginationShown
    /\ \E newPage \in PageButtons :
         IF newPage >= 1 /\ newPage <= list.totalPages
         THEN list' = [list EXCEPT !.currentPage = newPage, !.effectPending = TRUE]
         ELSE UNCHANGED list
    /\ UNCHANGED fetches
    /\ UNCHANGED <<pipelineVars, splitVars, displayVars>>

\* the fetch i of fetchVideos settles and its continuation runs to the end:
\* setVideos and setTotalPages, or setError, then setIsLoading(false)
VideosResponds ==
    /\ \E i \in DOMAIN fetches, youtubeOk \in BOOLEAN :
         LET r == VideosRoute(fetches[i].channelId, fetches[i].page, youtubeOk)
         IN /\ fetches[i].st = "pending"
            /\ fetches' = [fetches EXCEPT ![i].st = "settled", ![i].response = r]
            /\ list' = IF r.ok
                       THEN [list EXCEPT !.videos = r.videos,
                                         !.totalPages = r.totalPages,
                                         !.isLoading = FALSE]
                       ELSE [list EXCEPT !.error = r.error, !.isLoading = FALSE]
    /\ UNCHANGED <<pipelineVars, splitVars, displayVars>>

NextList ==
    \/ MountList
    \/ fetchVideos
    \/ handleChannelChange
    \/ handlePageChange
    \/ VideosResponds

SpecList == InitList /\ [][NextList]_vars

\* every fetch has settled and no effect is waiting to run
FetchesSettled ==
    /\ list.mounted
    /\ ~list.effectPending
    /\ Len(fetches) > 0
    /\ \A i \in DOMAIN fetches : fetches[i].st = "settled"

\* the response to the most recent request
LatestResponse == fetches[Len(fetches)].response

\* C29: once all fetches have settled, videos, totalPages and error are those
\* of the response to the most recent (channelId, page) request: a late
\* response to a superseded request has not overwritten them.
C29_LatestRequestWins ==
    FetchesSettled =>
        IF LatestResponse.ok
        THEN /\ list.videos = LatestResponse.videos
             /\ list.totalPages = LatestResponse.totalPages
             /\ list.error = JNull
        ELSE list.error = LatestResponse.error

\* C30: currentPage is at least 1 and, once the fetch of the selected channel
\* has settled, at most the totalPages of that channel; handlePageChange with
\* a page outside [1, totalPages] leaves currentPage unchanged and a channel
\* change resets currentPage to 1.
C30_CurrentPageInRange ==
    /\ [](list.mounted => list.currentPage >= 1)
    /\ [](FetchesSettled /\ LatestResponse.ok =>
            list.currentPage <= TotalPages(TotalResults(list.selectedChannelId)))
    /\ [][list.mounted =>
            /\ list'.selectedChannelId # list.selectedChannelId =>
                   list'.currentPage = 1
            /\ list'.currentPage # list.currentPage =>
                   list'.currentPage \in 1..list.totalPages]_vars

\* the p-th block of the results of a channel, MAX_RESULTS to a block
BlockOfPage(channelId, p) ==
    [channelId |-> channelId, first |-> (p - 1) * MAX_RESULTS + 1,
     last |-> Min(TotalResults(channelId), p * MAX_RESULTS)]

\* C31: the videos fetched for page p of a channel are the p-th block of the
\* results of that channel: for a channel of more than one page the response
\* for a page p > 1 differs from the response for page 1.
C31_PageShowsItsBlock ==
    \A i \in DOMAIN fetches :
        fetches[i].st = "settled" /\ fetches[i].response.ok =>
            /\ fetches[i].response.videos =
                   BlockOfPage(fetches[i].channelId, fetches[i].page)
            /\ fetches[i].page > 1
               /\ TotalPages(TotalResults(fetches[i].channelId)) > 1 =>
                   fetches[i].response # VideosRoute(fetches[i].channelId, 1, TRUE)

=============================================================================
